---- MODULE Spec2Model ----
(***************************************************************************)
(* Model of the GeoJSON -> Excel/GeoJSON conversion for Superset.          *)
(*                                                                         *)
(* Two entry points run the same pipeline over a list of features:         *)
(*   "script" : geojson_to_excel_with_exploded_multipolygons               *)
(*              (geojson_to_excel_for_superset.py)                         *)
(*   "app"    : the Streamlit feature loop (app.py)                        *)
(* Both call adaptive_polygon_simplify, whose text is the same in the two  *)
(* files.  A ring is modelled by its number of coordinates, a polygon by   *)
(* the sequence of its rings (exterior first), and the shapely primitive   *)
(* geom.simplify(tolerance, preserve_topology=True) by a nondeterministic  *)
(* choice among the polygons with the same rings, none longer than before. *)
(* A tolerance is an exact rational <<num, den>> in units of 1e-10.        *)
(***************************************************************************)
EXTENDS Integers, Sequences, FiniteSets, TLC

\* ---------------------------------------------------------------- bounds
\* Scaled-down stand-ins for the defaults target_points=780 and
\* max_iterations=300 of adaptive_polygon_simplify.
target_points == 2
max_iterations == 2
\* Size of the inputs drawn in Init.
MaxFeatures == 2
MaxParts == 2
MaxVertices == 5

\* Longest polygon drawn: long enough for error_ratio to exceed the cap of 2.
MaxPts == 2 * target_points + 1

\* ------------------------------------------------------------- rationals
RECURSIVE GCD(_, _)
GCD(a, b) == IF b = 0 THEN a ELSE GCD(b, a % b)

Norm(r) == IF r[1] = 0 THEN <<0, 1>>
           ELSE LET g == GCD(r[1], r[2]) IN <<r[1] \div g, r[2] \div g>>
RMul(a, b) == Norm(<<a[1] * b[1], a[2] * b[2]>>)
RLeq(a, b) == a[1] * b[2] <= b[1] * a[2]
RLt(a, b) == a[1] * b[2] < b[1] * a[2]
RMin(a, b) == IF RLeq(a, b) THEN a ELSE b
RECURSIVE Pow2(_)
Pow2(k) == IF k = 0 THEN 1 ELSE 2 * Pow2(k - 1)

RECURSIVE SumSeq(_)
SumSeq(s) == IF s = <<>> THEN 0 ELSE Head(s) + SumSeq(Tail(s))

\* ---------------------------------------------------------------- inputs
\* A polygon payload: the lengths of its rings, exterior first.
\* Drawn with no hole, one hole or two holes, the holes being minimal rings.
Holes == {<<>>, <<1>>, <<1, 1>>}
RingSeqs == {<<e>> \o h : e \in 1..MaxPts, h \in Holes}
PolygonCoords ==
    {r : r \in {rr \in RingSeqs : SumSeq(rr) <= MaxPts /\ SumSeq(rr) <= MaxVertices}}

RECURSIVE PayloadVertices(_)
PayloadVertices(polys) ==
    IF polys = <<>> THEN 0
    ELSE SumSeq(Head(polys)) + PayloadVertices(Tail(polys))

PartSeqs ==
    {p : p \in {pp \in UNION {[1..k -> PolygonCoords] : k \in 0..MaxParts} :
                  PayloadVertices(pp) <= MaxVertices}}

\* The "geometry" member of a feature.  type "null" is JSON null and type
\* "malformed" a payload shape() rejects.
NonPolygonal == {"Point", "LineString"}
GeometryPayloads ==
    {[type |-> t, polys |-> <<>>] : t \in {"null", "malformed"} \cup NonPolygonal}
    \cup {[type |-> "Polygon", polys |-> <<r>>] : r \in PolygonCoords}
    \cup {[type |-> "MultiPolygon", polys |-> p] : p \in PartSeqs}

\* A feature: None, or a mapping that may lack either key.  properties is
\* "none" (JSON null), "empty" ({}) or "attrs" (a non-empty mapping); the
\* first two are drawn with a one-ring polygon only.
NoGeometry == [type |-> "null", polys |-> <<>>]
SmallPolygon == [type |-> "Polygon", polys |-> << <<target_points>> >>]
FeatureSet ==
    {[isNone |-> TRUE, hasGeometry |-> FALSE, hasProperties |-> FALSE,
      properties |-> "none", geometry |-> NoGeometry]}
    \cup {[isNone |-> FALSE, hasGeometry |-> FALSE, hasProperties |-> TRUE,
           properties |-> "attrs", geometry |-> NoGeometry]}
    \cup {[isNone |-> FALSE, hasGeometry |-> TRUE, hasProperties |-> FALSE,
           properties |-> "none", geometry |-> SmallPolygon]}
    \cup {[isNone |-> FALSE, hasGeometry |-> TRUE, hasProperties |-> TRUE,
           properties |-> p, geometry |-> g] :
             p \in {"none", "empty"}, g \in {SmallPolygon}}
    \cup {[isNone |-> FALSE, hasGeometry |-> TRUE, hasProperties |-> TRUE,
           properties |-> "attrs", geometry |-> g] : g \in GeometryPayloads}

\* Each feature with the number of coordinates in its payload.
SizedFeatures ==
    {[list |-> <<f>>, size |-> PayloadVertices(f.geometry.polys)] : f \in FeatureSet}

\* The files read: at most MaxFeatures features with at most MaxVertices
\* coordinates in all.
RECURSIVE SizedLists(_)
SizedLists(k) ==
    IF k = 0 THEN {[list |-> <<>>, size |-> 0]}
    ELSE LET shorter == SizedLists(k - 1) IN
         shorter \cup
         {[list |-> p[1].list \o p[2].list, size |-> p[1].size + p[2].size] :
            p \in {q \in SizedFeatures \X shorter :
                     q[1].size + q[2].size <= MaxVertices}}

FeatureLists == {s.list : s \in SizedLists(MaxFeatures)}

\* ------------------------------------------------------ shapely geometry
\* shape(): a payload becomes a geometry object in the source CRS.
shape(payload) ==
    [type |-> payload.type,
     rings |-> IF payload.type = "Polygon" THEN payload.polys[1] ELSE <<>>,
     geoms |-> IF payload.type = "MultiPolygon" THEN payload.polys ELSE <<>>,
     crs |-> "source", derived |-> FALSE]

\* reproject(): a new geometry with the same rings, in EPSG:4326.
reproject(geom) == [geom EXCEPT !.crs = "EPSG:4326"]

\* list(geom.geoms): the parts of a MultiPolygon, in order, as Polygons.
Geoms(geom) ==
    [k \in 1..Len(geom.geoms) |->
        [type |-> "Polygon", rings |-> geom.geoms[k], geoms |-> <<>>,
         crs |-> geom.crs, derived |-> FALSE]]

\* mapping(): the GeoJSON form of a geometry, without CRS or object identity.
mapping(geom) == [type |-> geom.type, coordinates |-> geom.rings]

total_coords_count(geom) ==
    IF geom.type = "Polygon" THEN SumSeq(geom.rings) ELSE 0

\* geom.simplify(tolerance, preserve_topology=True): some new polygon with
\* the same rings, none of them longer than in geom.
Simplify(geom) ==
    {[type |-> "Polygon", rings |-> r, geoms |-> <<>>, crs |-> geom.crs,
      derived |-> TRUE] :
        r \in {rr \in [1..Len(geom.rings) -> 1..MaxPts] :
                 \A k \in 1..Len(geom.rings) : rr[k] <= geom.rings[k]}}

NoGeom == [type |-> "null", rings |-> <<>>, geoms |-> <<>>, crs |-> "source",
           derived |-> FALSE]

\* ------------------------------------------- adaptive_polygon_simplify
InitialTolerance == <<1, 1>>
ZeroTolerance == <<0, 1>>

WithinBudget_lt(n) == n < target_points
\* `if original <= target_points`
WithinBudget(n) == n <= target_points

LoopCond_le(count, it) == count > target_points /\ it <= max_iterations
LoopCond_early(count, it) == count > target_points /\ it < max_iterations - 1
\* `while total_coords_count(simplified) > target_points and iteration < max_iterations`
LoopCond(count, it) == count > target_points /\ it < max_iterations

ErrorRatio(count) == Norm(<<count, target_points>>)

Escalate_nocap(tol, ratio) == RMul(tol, ratio)
\* `tolerance *= min(error_ratio, 2)`
Escalate(tol, ratio) == RMul(tol, RMin(ratio, <<2, 1>>))

\* `simplified = geom.simplify(...)` inside the loop: the receiver is geom
ResimplifyInput(g, prev) == g

SimplificationInfo_changed(orig_pts, simp_pts, tol) ==
    IF simp_pts < orig_pts
    THEN [sentinel |-> FALSE, orig |-> orig_pts, simp |-> simp_pts, tol |-> tol]
    ELSE [sentinel |-> TRUE, orig |-> 0, simp |-> 0, tol |-> ZeroTolerance]
\* the f-string when tol > 0, else "Aucune simplification"
SimplificationInfo(orig_pts, simp_pts, tol) ==
    IF RLt(ZeroTolerance, tol)
    THEN [sentinel |-> FALSE, orig |-> orig_pts, simp |-> simp_pts, tol |-> tol]
    ELSE [sentinel |-> TRUE, orig |-> 0, simp |-> 0, tol |-> ZeroTolerance]

\* ----------------------------------------------------------------- state
VARIABLES
    entry,                \* "script" or "app"
    features,             \* the features read from the file
    pc,                   \* "loop", "simplify", "while", "returned", "done", "aborted"
    i,                    \* index of the current feature, from 0
    props,                \* props of the current feature
    polys,                \* polys of the current feature
    j,                    \* position in polys of the current part, from 1
    all_records,
    simplified_features,
    reports,              \* st.warning / st.error calls about a feature
    calls,                \* <<i, j>> of every call of adaptive_polygon_simplify
    geom, original, tolerance, simplified, iteration, error_ratio,
    prim_calls,           \* calls of geom.simplify in the current invocation
    prim_arg,             \* receiver of the last geom.simplify call
    result                \* the tuple adaptive_polygon_simplify returned

locals == <<geom, original, tolerance, simplified, iteration, error_ratio,
            prim_calls, prim_arg, result>>
outputs == <<all_records, simplified_features>>
vars == <<entry, features, pc, i, props, polys, j, all_records,
          simplified_features, reports, calls, locals>>

NoResult == [geom |-> NoGeom, tol |-> ZeroTolerance, orig |-> 0, simp |-> 0]

Init ==
    /\ entry \in {"script", "app"}
    /\ features \in FeatureLists
    /\ pc = "loop"
    /\ i = 0
    /\ props = "empty"
    /\ polys = <<>>
    /\ j = 1
    /\ all_records = <<>>
    /\ simplified_features = <<>>
    /\ reports = <<>>
    /\ calls = <<>>
    /\ geom = NoGeom
    /\ original = 0
    /\ tolerance = ZeroTolerance
    /\ simplified = NoGeom
    /\ iteration = 0
    /\ error_ratio = <<0, 1>>
    /\ prim_calls = 0
    /\ prim_arg = NoGeom
    /\ result = NoResult

Report(level, what) == reports' = Append(reports, [index |-> i, level |-> level, what |-> what])

\* Leave the current feature: `continue`, or the end of the loop body.
NextFeature ==
    /\ i' = i + 1
    /\ pc' = "loop"
    /\ polys' = <<>>
    /\ j' = 1

\* Enter the `for poly in polys` loop with the given parts.
StartParts(pr, ps) ==
    /\ props' = pr
    /\ IF ps = <<>>
       THEN NextFeature
       ELSE /\ polys' = ps
            /\ j' = 1
            /\ pc' = "simplify"
            /\ i' = i

\* ------------------------------------------------- the script's loop head
\* `if isinstance(geom, MultiPolygon) ... elif isinstance(geom, Polygon) ... else: continue`
ScriptPolys(g) ==
    IF g.type = "MultiPolygon" THEN Geoms(g)
    ELSE IF g.type = "Polygon" THEN <<g>>
    ELSE <<>>

\* feature["properties"], dict(), feature["geometry"] or shape() raises.
ScriptRaises(f) ==
    \/ f.isNone
    \/ ~f.hasProperties
    \/ f.properties = "none"
    \/ ~f.hasGeometry
    \/ f.geometry.type \in {"null", "malformed"}

ScriptFeature ==
    /\ entry = "script"
    /\ pc = "loop"
    /\ i < Len(features)
    /\ LET f == features[i + 1] IN
         IF ScriptRaises(f)
         THEN /\ pc' = "aborted"
              /\ UNCHANGED <<i, props, polys, j>>
         ELSE LET g == reproject(shape(f.geometry)) IN
              StartParts(IF f.properties = "attrs" THEN "attrs" ELSE "empty",
                         ScriptPolys(g))
    /\ UNCHANGED <<entry, features, outputs, reports, calls, locals>>

\* ---------------------------------------------------- the app's loop head
AppPolys_whole(g) == <<g>>
\* `polys = list(geom.geoms) if isinstance(geom, MultiPolygon) else [geom]`
AppPolys(g) == IF g.type = "MultiPolygon" THEN Geoms(g) ELSE <<g>>

AppFeature ==
    /\ entry = "app"
    /\ pc = "loop"
    /\ i < Len(features)
    /\ LET f == features[i + 1] IN
         CASE f.isNone ->
                /\ Report("warning", "vide")
                /\ NextFeature /\ UNCHANGED props
           [] ~f.isNone /\ ~f.hasGeometry ->
                /\ Report("error", "pas de geometry")
                /\ NextFeature /\ UNCHANGED props
           [] ~f.isNone /\ f.hasGeometry /\ ~f.hasProperties ->
                /\ Report("error", "pas de properties")
                /\ NextFeature /\ UNCHANGED props
           [] ~f.isNone /\ f.hasGeometry /\ f.hasProperties
                /\ f.geometry.type = "null" ->
                /\ Report("warning", "geometrie nulle")
                /\ NextFeature /\ UNCHANGED props
           [] OTHER ->
                LET warned == IF f.properties # "attrs"
                              THEN Append(reports, [index |-> i, level |-> "warning",
                                                    what |-> "sans attribut"])
                              ELSE reports
                    pr == IF f.properties = "attrs" THEN "attrs" ELSE "empty"
                IN IF f.geometry.type = "malformed"
                   THEN \* shape() raises inside the try: `except Exception`
                        /\ reports' = Append(warned, [index |-> i, level |-> "error",
                                                      what |-> "exception"])
                        /\ NextFeature /\ UNCHANGED props
                   ELSE /\ reports' = warned
                        /\ StartParts(pr, AppPolys(reproject(shape(f.geometry))))
    /\ UNCHANGED <<entry, features, outputs, calls, locals>>

\* ------------------------------------------- adaptive_polygon_simplify
\* From the call to the first loop test (or to the early return).
SimplifyEnter ==
    /\ pc = "simplify"
    /\ LET g == polys[j]
           n == total_coords_count(g) IN
         /\ geom' = g
         /\ original' = n
         /\ calls' = Append(calls, <<i, j>>)
         /\ error_ratio' = <<0, 1>>
         /\ iteration' = 0
         /\ IF WithinBudget(n)
            THEN /\ result' = [geom |-> g, tol |-> ZeroTolerance, orig |-> n, simp |-> n]
                 /\ tolerance' = ZeroTolerance
                 /\ simplified' = NoGeom
                 /\ prim_calls' = 0
                 /\ prim_arg' = NoGeom
                 /\ pc' = "returned"
            ELSE /\ tolerance' = InitialTolerance
                 /\ simplified' \in Simplify(g)
                 /\ prim_calls' = 1
                 /\ prim_arg' = g
                 /\ result' = NoResult
                 /\ pc' = "while"
    /\ UNCHANGED <<entry, features, i, props, polys, j, outputs, reports>>

\* One execution of the loop body.
SimplifyIterate ==
    /\ pc = "while"
    /\ LoopCond(total_coords_count(simplified), iteration)
    /\ LET ratio == ErrorRatio(total_coords_count(simplified))
           arg == ResimplifyInput(geom, simplified) IN
         /\ error_ratio' = ratio
         /\ tolerance' = Escalate(tolerance, ratio)
         /\ simplified' \in Simplify(arg)
         /\ prim_arg' = arg
    /\ prim_calls' = prim_calls + 1
    /\ iteration' = iteration + 1
    /\ UNCHANGED <<entry, features, pc, i, props, polys, j, outputs, reports,
                   calls, geom, original, result>>

\* The loop test fails: count and return.
SimplifyReturn ==
    /\ pc = "while"
    /\ ~LoopCond(total_coords_count(simplified), iteration)
    /\ result' = [geom |-> simplified, tol |-> tolerance, orig |-> original,
                  simp |-> total_coords_count(simplified)]
    /\ pc' = "returned"
    /\ UNCHANGED <<entry, features, i, props, polys, j, outputs, reports, calls,
                   geom, original, tolerance, simplified, iteration, error_ratio,
                   prim_calls, prim_arg>>

\* ------------------------------------------------------ the part's output
Place_front(seq, x) == <<x>> \o seq
\* `.append(...)`
Place(seq, x) == Append(seq, x)

\* The rest of the body of `for poly in polys`, after the call returned.
Emit ==
    /\ pc = "returned"
    /\ LET geom_json == mapping(result.geom)
           feature_geojson == [type |-> "Feature", geometry |-> geom_json,
                               properties |-> props, src |-> <<i, j>>]
           record == [properties |-> props,
                      geometry |-> [type |-> "Feature", geometry |-> geom_json],
                      simplification_info |->
                          SimplificationInfo(result.orig, result.simp, result.tol),
                      src |-> <<i, j>>] IN
         /\ simplified_features' = Place(simplified_features, feature_geojson)
         /\ all_records' = Place(all_records, record)
    /\ IF j < Len(polys)
       THEN /\ j' = j + 1
            /\ pc' = "simplify"
            /\ UNCHANGED <<i, polys>>
       ELSE NextFeature
    /\ UNCHANGED <<entry, features, props, reports, calls, locals>>

ScriptEmit == entry = "script" /\ Emit
AppEmit == entry = "app" /\ Emit

\* ------------------------------------------------------------- the export
Export ==
    /\ pc = "loop"
    /\ i = Len(features)
    /\ pc' = "done"
    /\ UNCHANGED <<entry, features, i, props, polys, j, outputs, reports, calls,
                   locals>>

ScriptExport == entry = "script" /\ Export
AppExport == entry = "app" /\ Export

Next ==
    \/ ScriptFeature
    \/ AppFeature
    \/ SimplifyEnter
    \/ SimplifyIterate
    \/ SimplifyReturn
    \/ ScriptEmit
    \/ AppEmit
    \/ ScriptExport
    \/ AppExport

Spec == Init /\ [][Next]_vars

\* The simplifier on its own: files of one feature.  The program is
\* sequential and runs to its end, so no enabled step is withheld for ever.
InitOneFeature == Init /\ Len(features) = 1
FairOneFeature == InitOneFeature /\ [][Next]_vars /\ WF_vars(Next)

\* ------------------------------------------------- vocabulary of the claims
Indices == 0..(Len(features) - 1)
FeatureAt(p) == features[p + 1]

\* f is a mapping with both keys and a payload shape() accepts.
WellFormed(f) ==
    /\ ~f.isNone /\ f.hasGeometry /\ f.hasProperties
    /\ f.geometry.type \notin {"null", "malformed"}
Polygonal(f) == WellFormed(f) /\ f.geometry.type \in {"Polygon", "MultiPolygon"}
NotPolygonal(f) == WellFormed(f) /\ f.geometry.type \in NonPolygonal
PartsIn(f) == IF f.geometry.type = "MultiPolygon" THEN Len(f.geometry.polys) ELSE 1

\* Coordinates of part k of feature p, counted on the payload.
PayloadCount(p, k) ==
    LET g == FeatureAt(p).geometry IN
    IF g.type = "MultiPolygon" THEN SumSeq(g.polys[k])
    ELSE IF g.type = "Polygon" THEN SumSeq(g.polys[1])
    ELSE 0

From(seq, p) == {k \in 1..Len(seq) : seq[k].src[1] = p}
CallsFor(p) == {k \in 1..Len(calls) : calls[k][1] = p}
ReportedAt(p) == \E k \in 1..Len(reports) : reports[k].index = p
IsPrefix(s, t) == Len(s) <= Len(t) /\ \A k \in 1..Len(s) : s[k] = t[k]
Before(a, b) == a[1] < b[1] \/ (a[1] = b[1] /\ a[2] < b[2])
InSourceOrder(seq) ==
    \A a, b \in 1..Len(seq) : a < b => Before(seq[a].src, seq[b].src)

\* -------------------------------------------------------------------- C1
\* C1: when adaptive_polygon_simplify returns for a geometry whose total
\* count (exterior plus holes) is <= target_points, it returns that very
\* geometry, tolerance 0 and the count twice, and geom.simplify was not
\* called.
C1_IdentityBelowBudget ==
    (pc = "returned" /\ total_coords_count(polys[j]) <= target_points) =>
        /\ result.geom = polys[j]
        /\ result.tol = ZeroTolerance
        /\ result.orig = total_coords_count(polys[j])
        /\ result.simp = result.orig
        /\ prim_calls = 0

\* A polygon with a hole, exactly at the budget, has been returned.
C1_Witness ==
    /\ pc = "returned"
    /\ polys[j].type = "Polygon"
    /\ Len(polys[j].rings) > 1
    /\ total_coords_count(polys[j]) = target_points

\* -------------------------------------------------------------------- C2
\* C2: every call of adaptive_polygon_simplify returns, whatever
\* geom.simplify produces; the loop body runs at most max_iterations times
\* and geom.simplify is called at most max_iterations + 1 times.
C2_Termination ==
    /\ [](iteration <= max_iterations /\ prim_calls <= max_iterations + 1)
    /\ (pc \in {"simplify", "while"}) ~> (pc = "returned")

\* The cap was reached with the candidate still over budget.
C2_Witness ==
    /\ pc = "returned"
    /\ iteration = max_iterations
    /\ prim_calls = max_iterations + 1
    /\ result.simp > target_points

\* -------------------------------------------------------------------- C3
\* C3: a feature processed without error contributes one record, one
\* simplified feature and one call of adaptive_polygon_simplify per part:
\* N of each for a MultiPolygon of N parts, 1 for a Polygon.
C3_DecompositionComplete ==
    \A p \in Indices :
        (p < i /\ Polygonal(FeatureAt(p))) =>
            /\ Cardinality(From(all_records, p)) = PartsIn(FeatureAt(p))
            /\ Cardinality(From(simplified_features, p)) = PartsIn(FeatureAt(p))
            /\ Cardinality(CallsFor(p)) = PartsIn(FeatureAt(p))

\* A MultiPolygon of several parts and a Polygon have both been processed.
C3_Witness ==
    /\ pc = "done"
    /\ \E p \in Indices :
         /\ FeatureAt(p).geometry.type = "MultiPolygon"
         /\ PartsIn(FeatureAt(p)) > 1
         /\ Cardinality(From(all_records, p)) = PartsIn(FeatureAt(p))
    /\ \E p \in Indices :
         /\ FeatureAt(p).geometry.type = "Polygon"
         /\ Cardinality(From(all_records, p)) = 1

\* -------------------------------------------------------------------- C4
\* C4: a feature whose geometry is neither Polygon nor MultiPolygon never
\* reaches adaptive_polygon_simplify and contributes no record and no
\* simplified feature, in either entry point.
C4_NonPolygonSkipped ==
    \A p \in Indices :
        NotPolygonal(FeatureAt(p)) =>
            /\ CallsFor(p) = {}
            /\ From(all_records, p) = {}
            /\ From(simplified_features, p) = {}

\* -------------------------------------------------------------------- C5
\* C5: a failure on the feature at index p is caught and reported against
\* p, and the run is not aborted: the features after p are processed and
\* the records of the features before p stay in the output.
C5_ErrorIsolation ==
    /\ pc # "aborted"
    /\ \A p \in Indices :
         (p < i /\ ~WellFormed(FeatureAt(p))) => ReportedAt(p)
    /\ pc = "done" => i = Len(features)

\* -------------------------------------------------------------------- C6
\* C6: at the end of a completed run every feature that contributed no
\* record has had a warning or an error reported for it.
C6_SkipsObservable ==
    pc = "done" =>
        \A p \in Indices : From(all_records, p) = {} => ReportedAt(p)

\* -------------------------------------------------------------------- C7
\* C7: records and simplified features are only ever appended; both lists
\* are in input feature order and, within a feature, in part order; the
\* k-th record and the k-th simplified feature describe the same part.
C7_OutputOrder ==
    /\ [][/\ IsPrefix(all_records, all_records')
          /\ IsPrefix(simplified_features, simplified_features')]_vars
    /\ [](/\ InSourceOrder(all_records)
          /\ InSourceOrder(simplified_features)
          /\ Len(all_records) = Len(simplified_features)
          /\ \A k \in 1..Len(all_records) :
               /\ all_records[k].src = simplified_features[k].src
               /\ all_records[k].geometry.geometry = simplified_features[k].geometry)

\* Two parts of one feature and a part of a later feature are in the output.
C7_Witness ==
    /\ pc = "done"
    /\ \E a, b, c \in 1..Len(all_records) :
         /\ a < b /\ b < c
         /\ all_records[a].src[1] = all_records[b].src[1]
         /\ all_records[b].src[1] < all_records[c].src[1]

\* -------------------------------------------------------------------- C8
\* C8: the simplification_info of a record is "Aucune simplification"
\* exactly when the part had at most target_points coordinates; otherwise
\* it is the "<original>-><simplified> points" form, with the part's
\* original count and a tolerance > 0.
C8_InfoMatchesBudget ==
    \A k \in 1..Len(all_records) :
        LET r == all_records[k]
            n == PayloadCount(r.src[1], r.src[2]) IN
        /\ r.simplification_info.sentinel <=> n <= target_points
        /\ ~r.simplification_info.sentinel =>
             /\ n > target_points
             /\ r.simplification_info.orig = n
             /\ RLt(ZeroTolerance, r.simplification_info.tol)

\* One record with the sentinel, and one for an over-budget part that
\* geom.simplify did not shorten.
C8_Witness ==
    /\ \E k \in 1..Len(all_records) : all_records[k].simplification_info.sentinel
    /\ \E k \in 1..Len(all_records) :
         /\ ~all_records[k].simplification_info.sentinel
         /\ all_records[k].simplification_info.simp
              = all_records[k].simplification_info.orig

\* -------------------------------------------------------------------- C9
\* C9: in every execution of the loop body error_ratio is the candidate's
\* count over target_points and is >= 1; the tolerance is multiplied by
\* min(error_ratio, 2), so it does not decrease and at most doubles; after
\* k iterations it is at most 2^k times the initial tolerance; and
\* geom.simplify is applied to the original geometry.
C9_ToleranceEscalation ==
    /\ [][iteration' = iteration + 1 =>
            /\ error_ratio'[1] * target_points
                 = total_coords_count(simplified) * error_ratio'[2]
            /\ RLeq(<<1, 1>>, error_ratio')
            /\ tolerance' = RMul(tolerance, RMin(error_ratio', <<2, 1>>))
            /\ RLeq(tolerance, tolerance')
            /\ RLeq(tolerance', RMul(<<2, 1>>, tolerance))
            /\ prim_arg' = geom
            /\ geom' = geom /\ geom = polys[j]]_vars
    /\ [](pc = "while" =>
            /\ RLeq(InitialTolerance, tolerance)
            /\ RLeq(tolerance, <<Pow2(iteration), 1>>))

\* Two iterations, one capped at 2 and one multiplying by 3/2.
C9_Witness ==
    /\ pc = "while"
    /\ iteration = 2
    /\ tolerance = <<3, 1>>
    /\ prim_arg = geom /\ simplified # geom

\* ------------------------------------------------------------------- C10
\* C10: when adaptive_polygon_simplify returns for a geometry over budget,
\* it returns the last candidate, and either that candidate is within
\* budget or the loop body has run exactly max_iterations times.
C10_ExitCondition ==
    (pc = "returned" /\ result.orig > target_points) =>
        /\ result.geom = simplified
        /\ result.simp = total_coords_count(simplified)
        /\ \/ result.simp <= target_points
           \/ iteration = max_iterations

\* A return within budget after some iterations, with iterations to spare.
C10_Witness ==
    /\ pc = "returned"
    /\ result.orig > target_points
    /\ result.simp <= target_points
    /\ iteration > 0 /\ iteration < max_iterations

====
